---- MODULE Spec2Model ----
(***************************************************************************)
(* A model of the payroll request handlers of app/routes.py: lop_page,     *)
(* d_r_page, professional_tax and delete_tax, over the SalaryRecord and    *)
(* ProfessionalTax tables.                                                 *)
(*                                                                         *)
(* Numbers.  Python floats are held as fixed-point hundredths: 2.00 days   *)
(* is 200, Rs 500.00 is 50000.  Form values are strings, held as sequences *)
(* of one-character strings, and float() is the parser ParseFloat below.   *)
(*                                                                         *)
(* Requests.  Each request is run by a process of Procs, one database      *)
(* statement group at a time; a request's session sees only committed      *)
(* rows, and its own changes reach the store at its commit.  Spec runs the *)
(* requests one after the other, SpecConc interleaves their steps.         *)
(***************************************************************************)
EXTENDS Integers, Sequences, FiniteSets, TLC

\* store       the SalaryRecord table, a set of rows
\* slabs       the ProfessionalTax table, a set of rows
\* nextId      the next SalaryRecord primary key
\* nextSlabId  the next ProfessionalTax primary key
\* pc, ctx     each worker's position in its request and the request's locals;
\*             ctx also keeps, for the properties, the request's number (seq),
\*             the key's rows when it began (pre), the steps it took, the
\*             arguments it gave the engine (args), its outcome and flashes
\* nreq        the requests started so far
\* hrLast      history: per key, the lop_days lop_page stored last (0: none)
\* lastDR      history: per key, the latest breakdown d_r_page computed and stored
\* drFailed    history: per key, whether the latest d_r_page POST failed
VARIABLES store, slabs, nextId, nextSlabId, pc, ctx, nreq, hrLast, lastDR, drFailed

vars == <<store, slabs, nextId, nextSlabId, pc, ctx, nreq, hrLast, lastDR, drFailed>>

\* ---------------------------------------------------------------- bounds

\* Requests started in one behaviour.
MaxRequests == 3

\* The request workers.
Procs == {"w1", "w2"}

\* ------------------------------------------------------------ form values

\* A column the constructor was not given (SalaryRecord(...) of lop_page sets
\* only staff_id, month, year, lop_days and gross_salary).
None == -999999999

Digits == {"0", "1", "2", "3", "4", "5", "6", "7", "8", "9"}

DigitVal(c) ==
  CASE c = "0" -> 0 [] c = "1" -> 1 [] c = "2" -> 2 [] c = "3" -> 3 [] c = "4" -> 4
    [] c = "5" -> 5 [] c = "6" -> 6 [] c = "7" -> 7 [] c = "8" -> 8 [] c = "9" -> 9

RECURSIVE LStrip(_)
LStrip(s) == IF s # <<>> /\ Head(s) = " " THEN LStrip(Tail(s)) ELSE s

RECURSIVE RStrip(_)
RStrip(s) ==
  IF s # <<>> /\ s[Len(s)] = " " THEN RStrip(SubSeq(s, 1, Len(s) - 1)) ELSE s

\* str.strip()
Strip(s) == RStrip(LStrip(s))

\* The value of a run of digits, most significant first.
RECURSIVE DigitsVal(_)
DigitsVal(s) ==
  IF s = <<>> THEN 0 ELSE 10 * DigitsVal(SubSeq(s, 1, Len(s) - 1)) + DigitVal(s[Len(s)])

AllDigits(s) == \A i \in 1..Len(s) : s[i] \in Digits

\* Index of the first "." of s, or 0.
DotAt(s) ==
  IF \E i \in 1..Len(s) : s[i] = "." THEN CHOOSE i \in 1..Len(s) :
       s[i] = "." /\ \A j \in 1..(i - 1) : s[j] # "."
  ELSE 0

\* float(s) of an unsigned decimal with at most two fraction digits, in
\* hundredths; ok is FALSE where float() raises ValueError.
ParseUnsigned(s) ==
  LET d == DotAt(s)
      ip == IF d = 0 THEN s ELSE SubSeq(s, 1, d - 1)
      fp == IF d = 0 THEN <<>> ELSE SubSeq(s, d + 1, Len(s))
      fv == IF Len(fp) = 0 THEN 0
            ELSE IF Len(fp) = 1 THEN 10 * DigitsVal(fp) ELSE DigitsVal(fp)
  IN  IF (Len(ip) + Len(fp) = 0) \/ ~AllDigits(ip) \/ ~AllDigits(fp) \/ Len(fp) > 2
      THEN [ok |-> FALSE, val |-> 0]
      ELSE [ok |-> TRUE, val |-> 100 * DigitsVal(ip) + fv]

\* float(s): surrounding blanks dropped, an optional sign, then the decimal.
ParseFloat(s) ==
  LET t == Strip(s)
  IN  IF t = <<>> THEN [ok |-> FALSE, val |-> 0]
      ELSE IF Head(t) = "-"
           THEN LET u == ParseUnsigned(Tail(t))
                IN  [ok |-> u.ok, val |-> 0 - u.val]
           ELSE IF Head(t) = "+" THEN ParseUnsigned(Tail(t))
           ELSE ParseUnsigned(t)

\* int(s) of a staff primary key typed into the form: digits only.
ParseInt(s) ==
  LET t == Strip(s)
  IN  IF t = <<>> \/ ~AllDigits(t) THEN [ok |-> FALSE, val |-> 0]
      ELSE [ok |-> TRUE, val |-> DigitsVal(t)]

\* ------------------------------------------------------------------ staff

\* The Staff table.  No handler modelled here writes it; both rows are active.
StaffTable ==
  { [id |-> 1, staff_id |-> 1001, name |-> "Asha", base_salary |-> 2400000,
     allowances |-> 100000, active |-> TRUE],
    [id |-> 2, staff_id |-> 1002, name |-> "Bala", base_salary |-> 100000,
     allowances |-> 0, active |-> TRUE] }

\* The names of StaffTable in ascending order (ORDER BY name ASC).
NameOrder == <<"Asha", "Bala">>

NameRank(n) == CHOOSE i \in 1..Len(NameOrder) : NameOrder[i] = n

\* Staff.query.filter_by(active=True).order_by(Staff.name.asc()).all()
RECURSIVE SortByName(_)
SortByName(S) ==
  IF S = {} THEN <<>>
  ELSE LET first == CHOOSE s \in S : \A t \in S : NameRank(s.name) <= NameRank(t.name)
       IN  <<first>> \o SortByName(S \ {first})

ActiveStaff == SortByName({s \in StaffTable : s.active})

\* Staff.query.get(pk): the row as a set of at most one element.
StaffGet(pk) == {s \in StaffTable : s.id = pk}

\* staff.base_salary + (staff.allowances or 0)
GrossOf(s) == s.base_salary + s.allowances

\* The (year, month) pairs requests are made for.
Periods == { [year |-> 2024, month |-> 2] }

StaffIds == {s.id : s \in StaffTable}

\* The identity keys (staff, month, year).
Keys == { [staff_id |-> i, month |-> p.month, year |-> p.year] : i \in StaffIds, p \in Periods }

\* --------------------------------------------------------------- calendar

IsLeap(y) == (y % 4 = 0 /\ y % 100 # 0) \/ (y % 400 = 0)

\* calendar.monthrange(year, month)[1]
DaysInMonth(month, year) ==
  IF month = 2 THEN (IF IsLeap(year) THEN 29 ELSE 28)
  ELSE IF month \in {4, 6, 9, 11} THEN 30 ELSE 31

\* ------------------------------------------------------ computation engine

\* a * b / d rounded to the nearest integer, halves to the even one (d > 0),
\* computed without forming a * b.
MulDivRound(a, b, d) ==
  LET q == a \div d
      r == a % d
      f == (r * b) \div d
      m == (r * b) % d
      i == q * b + f
  IN  IF 2 * m < d THEN i
      ELSE IF 2 * m > d THEN i + 1
      ELSE IF i % 2 = 0 THEN i ELSE i + 1

\* The statutory rates the engine is configured with: EPF as a percentage,
\* ESI in hundredths of a percent, and the ESI eligibility ceiling.
RateEpfPct == 12
RateEsiBp == 75
EsiCeiling == 2100000

RECURSIVE SumSeq(_)
SumSeq(s) == IF s = <<>> THEN 0 ELSE Head(s) + SumSeq(Tail(s))

SumDeductions(d) ==
  d.it + d.loan + d.advance + d.uniform + d.cd + d.hostel + d.misc

\* The engine rejects a negative gross_salary or lop_days (it raises).
ComputeRejects(a) == a.gross_salary < 0 \/ a.lop_days < 0

\* calculate_salary_components(gross_salary, lop_days, deductions,
\* reimbursements, month, year) on arguments it does not reject.
calculate_salary_components(a) ==
  LET days == DaysInMonth(a.month, a.year)
      lop == MulDivRound(a.gross_salary, a.lop_days, days * 100)
      base == a.gross_salary - lop
      epf == MulDivRound(base, RateEpfPct, 100)
      esi == IF base <= EsiCeiling THEN MulDivRound(base, RateEsiBp, 10000) ELSE 0
      td == lop + epf + esi + SumDeductions(a.deductions)
      tr == SumSeq(a.reimbursements)
  IN  [gross_salary |-> a.gross_salary, lop_amount |-> lop, epf |-> epf, esi |-> esi,
       total_deductions |-> td, total_reimbursements |-> tr,
       net_salary |-> a.gross_salary - td + tr]

\* ----------------------------------------------------------------- tables

\* SalaryRecord.query.filter_by(staff_id=.., month=.., year=..)
RowsFor(st, k) ==
  {r \in st : r.staff_id = k.staff_id /\ r.month = k.month /\ r.year = k.year}

\* .first() of a query with no ORDER BY: no row, or any one of the rows, as
\* the set of results the database may give.
First(rows) == IF rows = {} THEN {{}} ELSE {{r} : r \in rows}

\* The only element of a one-element set.
The(S) == CHOOSE x \in S : TRUE

KeyOf(sid, period) == [staff_id |-> sid, month |-> period.month, year |-> period.year]

NoKey == [staff_id |-> 0, month |-> 0, year |-> 0]

\* db.session.add(record) as the commit writes it: the table takes the row
\* whatever rows it holds, there being no uniqueness over (staff_id, month,
\* year).
InsertRow(st, row) == st \cup {row}

DeleteExistingSkipped(st, ex) == st

\* db.session.delete(existing_record); db.session.commit()
DeleteExisting(st, ex) == {r \in st : r.id \notin {e.id : e \in ex}}

\* SalaryRecord(staff_id, month, year, lop_days, gross_salary) of lop_page
LopRecord(id, k, lop_days, gross) ==
  [id |-> id, staff_id |-> k.staff_id, month |-> k.month, year |-> k.year,
   gross_salary |-> gross, lop_days |-> lop_days, lop_amount |-> None,
   epf |-> None, esi |-> None, it |-> None, loan |-> None, advance |-> None,
   uniform |-> None, cd |-> None, hostel |-> None, misc |-> None,
   total_deductions |-> None, total_reimbursements |-> None, net_salary |-> None]

\* SalaryRecord(...) of d_r_page, from the engine's result and the deductions
NewRecord(id, k, lop_days, d, res) ==
  [id |-> id, staff_id |-> k.staff_id, month |-> k.month, year |-> k.year,
   gross_salary |-> res.gross_salary, lop_days |-> lop_days,
   lop_amount |-> res.lop_amount, epf |-> res.epf, esi |-> res.esi,
   it |-> d.it, loan |-> d.loan, advance |-> d.advance, uniform |-> d.uniform,
   cd |-> d.cd, hostel |-> d.hostel, misc |-> d.misc,
   total_deductions |-> res.total_deductions,
   total_reimbursements |-> res.total_reimbursements,
   net_salary |-> res.net_salary]

\* The computed fields of a stored record: all but the primary key and lop_days.
Computed(r) ==
  [gross_salary |-> r.gross_salary, lop_amount |-> r.lop_amount, epf |-> r.epf,
   esi |-> r.esi, it |-> r.it, loan |-> r.loan, advance |-> r.advance,
   uniform |-> r.uniform, cd |-> r.cd, hostel |-> r.hostel, misc |-> r.misc,
   total_deductions |-> r.total_deductions,
   total_reimbursements |-> r.total_reimbursements, net_salary |-> r.net_salary]

\* ------------------------------------------------------------------ users

Roles == {"hr", "accounts", "admin", "staff"}

is_hr(role) == role = "hr"
is_accounts(role) == role = "accounts"
is_admin(role) == role = "admin"

\* ----------------------------------------------------------- request state

Flash(cat, msg) == [cat |-> cat, msg |-> msg]

\* A worker between requests.  seq numbers the requests in their order of
\* arrival.
IdleCtx ==
  [op |-> "none", seq |-> 0, role |-> "none", key |-> NoKey, pre |-> {}, existing |-> {},
   gathered |-> {}, args |-> {}, result |-> {}, steps |-> <<>>,
   outcome |-> "none", flashes |-> <<>>,
   period |-> [year |-> 0, month |-> 0], form |-> <<>>, idx |-> 0, pending |-> <<>>,
   records |-> {}]

Init ==
  /\ store = {}
  /\ slabs = {}
  /\ nextId = 1
  /\ nextSlabId = 1
  /\ pc = [p \in Procs |-> "idle"]
  /\ ctx = [p \in Procs |-> IdleCtx]
  /\ nreq = 0
  /\ hrLast = [k \in Keys |-> 0]
  /\ lastDR = [k \in Keys |-> {}]
  /\ drFailed = [k \in Keys |-> FALSE]

\* A worker is free to take a request.
Free(p) == pc[p] \in {"idle", "done"}

\* The request ends: the response is rendered or redirected.
Finish(p, c, outcome, flash) ==
  /\ pc' = [pc EXCEPT ![p] = "done"]
  /\ ctx' = [ctx EXCEPT ![p] = [c EXCEPT !.outcome = outcome,
                                          !.flashes = Append(c.flashes, flash)]]

\* ------------------------------------------------------- d_r_page inputs

\* request.form.get(name, 0) passed to float(): the field's text, or 0 when
\* the form has no such field.
FormFloat(fields, name) ==
  IF name \in DOMAIN fields THEN ParseFloat(fields[name]) ELSE [ok |-> TRUE, val |-> 0]

\* The deductions dict of d_r_page, each entry with its parse result.
ParseDeductions(fields) ==
  [it |-> FormFloat(fields, "income_tax"), loan |-> FormFloat(fields, "loan"),
   advance |-> FormFloat(fields, "advance"), uniform |-> FormFloat(fields, "uniform"),
   cd |-> FormFloat(fields, "cd"), hostel |-> FormFloat(fields, "hostel"),
   misc |-> FormFloat(fields, "misc")]

DeductionsOk(d) ==
  d.it.ok /\ d.loan.ok /\ d.advance.ok /\ d.uniform.ok /\ d.cd.ok /\ d.hostel.ok /\ d.misc.ok

DeductionValues(d) ==
  [it |-> d.it.val, loan |-> d.loan.val, advance |-> d.advance.val,
   uniform |-> d.uniform.val, cd |-> d.cd.val, hostel |-> d.hostel.val,
   misc |-> d.misc.val]

\* `if x and str(x).strip()`
NonBlank(x) == Strip(x) # <<>>

\* The reimbursements list of d_r_page: the non-blank entries, parsed.
ParseReimbursements(list) ==
  LET kept == SelectSeq(list, NonBlank)
  IN  [ok |-> \A i \in 1..Len(kept) : ParseFloat(kept[i]).ok,
       val |-> [i \in 1..Len(kept) |-> ParseFloat(kept[i]).val]]

NoFields == [n \in {} |-> <<>>]

\* employee_name and salary_month of a d_r_page form: employee_name is a staff
\* primary key as text (9 is no staff, the empty text no selection);
\* salary_month is the chosen "YYYY-MM" split into <<year, month>>, or empty.
DrSelections ==
  { [employee_name |-> e, salary_month |-> <<pd.year, pd.month>>] :
      e \in { <<"1">>, <<"2">>, <<"9">>, <<>> }, pd \in Periods }
  \cup { [employee_name |-> <<"1">>, salary_month |-> <<>>] }

\* The deduction fields and the reimbursement_amount[] list of a d_r_page form.
DrAmounts ==
  { [fields |-> NoFields, reimb |-> <<>>],
    [fields |-> [n \in {"income_tax"} |-> <<"5", "0", "0">>],
     reimb |-> << <<"2", "0", "0">>, <<" ">> >>],
    [fields |-> [n \in {"income_tax", "loan"} |->
                   IF n = "income_tax" THEN <<"3", "0", "0", "0", "0">>
                   ELSE <<"-", "1", "0", "0">>],
     reimb |-> <<>>],
    [fields |-> [n \in {"misc"} |-> <<>>], reimb |-> <<>>] }

\* The forms posted to d_r_page; the second staff member's are posted with no
\* amounts.
DrForms ==
  { [employee_name |-> sel.employee_name, salary_month |-> sel.salary_month,
     fields |-> am.fields, reimb |-> am.reimb] :
      sel \in DrSelections, am \in DrAmounts }
  \ { f \in [employee_name : {<<"2">>, <<"9">>, <<>>},
             salary_month : { <<pd.year, pd.month>> : pd \in Periods } \cup { <<>> },
             fields : {am.fields : am \in DrAmounts},
             reimb : {am.reimb : am \in DrAmounts}] : f.fields # NoFields }

\* --------------------------------------------------------------- d_r_page

AfterGatherSkipsCompute == "dr_insert"

\* The worker's position after the inputs are gathered.
AfterGather == "dr_compute"

\* The worker's position after the engine has returned: the existing record is
\* deleted first, if there was one.
AfterCompute(ex) == IF ex # {} THEN "dr_delete" ELSE "dr_insert"

ErrorSaving == Flash("error", "Error saving salary record")

\* d_r_page POST up to the call of the engine: the role check, the selection,
\* the staff row, the existing record and its lop_days, gross, deductions and
\* reimbursements.
DrStart(p, role, form) ==
  /\ Free(p)
  /\ nreq < MaxRequests
  /\ nreq' = nreq + 1
  /\ UNCHANGED <<store, slabs, nextId, nextSlabId, hrLast, lastDR>>
  /\ LET c0 == [IdleCtx EXCEPT !.op = "d_r", !.seq = nreq + 1, !.role = role]
     IN
     IF ~is_accounts(role) /\ ~is_admin(role)
     THEN /\ Finish(p, c0, "denied", Flash("error", "Access denied: Accounts users only."))
          /\ UNCHANGED drFailed
     ELSE IF form.employee_name = <<>> \/ form.salary_month = <<>>
     THEN /\ Finish(p, c0, "redirect", Flash("error", "Missing staff or month selection."))
          /\ UNCHANGED drFailed
     ELSE IF ~ParseInt(form.employee_name).ok
     THEN /\ Finish(p, c0, "error", ErrorSaving)
          /\ UNCHANGED drFailed
     ELSE IF StaffGet(ParseInt(form.employee_name).val) = {}
     THEN /\ Finish(p, c0, "redirect", Flash("error", "Invalid staff selected."))
          /\ UNCHANGED drFailed
     ELSE
       LET staff == The(StaffGet(ParseInt(form.employee_name).val))
           k == [staff_id |-> staff.id, month |-> form.salary_month[2],
                 year |-> form.salary_month[1]]
           d == ParseDeductions(form.fields)
           r == ParseReimbursements(form.reimb)
       IN  \E ex \in First(RowsFor(store, k)) :
             LET lop_days == IF ex # {} THEN The(ex).lop_days ELSE 0
                 c1 == [c0 EXCEPT !.key = k, !.pre = RowsFor(store, k),
                                  !.existing = ex, !.steps = <<"gather">>]
             IN  IF ~DeductionsOk(d) \/ ~r.ok
                 THEN /\ Finish(p, c1, "error", ErrorSaving)
                      /\ drFailed' = [drFailed EXCEPT ![k] = TRUE]
                 ELSE /\ ctx' = [ctx EXCEPT ![p] =
                             [c1 EXCEPT !.gathered =
                                {[gross_salary |-> GrossOf(staff), lop_days |-> lop_days,
                                  deductions |-> DeductionValues(d),
                                  reimbursements |-> r.val,
                                  month |-> k.month, year |-> k.year]}]]
                      /\ pc' = [pc EXCEPT ![p] = AfterGather]
                      /\ UNCHANGED drFailed

\* result = calculate_salary_components(...)
DrCompute(p) ==
  /\ pc[p] = "dr_compute"
  /\ UNCHANGED <<store, slabs, nextId, nextSlabId, nreq, hrLast, lastDR>>
  /\ LET c == ctx[p]
         a == The(c.gathered)
         c1 == [c EXCEPT !.args = {a}, !.steps = Append(c.steps, "compute")]
     IN  IF ComputeRejects(a)
         THEN /\ Finish(p, c1, "error", ErrorSaving)
              /\ drFailed' = [drFailed EXCEPT ![c.key] = TRUE]
         ELSE /\ ctx' = [ctx EXCEPT ![p] =
                          [c1 EXCEPT !.result = {calculate_salary_components(a)}]]
              /\ pc' = [pc EXCEPT ![p] = AfterCompute(c.existing)]
              /\ UNCHANGED drFailed

\* db.session.delete(existing_record); db.session.commit().  A row that is no
\* longer there is no error of the delete.
DrDelete(p) ==
  /\ pc[p] = "dr_delete"
  /\ store' = DeleteExisting(store, ctx[p].existing)
  /\ ctx' = [ctx EXCEPT ![p].steps = Append(@, "delete")]
  /\ pc' = [pc EXCEPT ![p] = "dr_insert"]
  /\ UNCHANGED <<slabs, nextId, nextSlabId, nreq, hrLast, lastDR, drFailed>>

\* The delete's commit raises (the database is locked, the connection is
\* lost): rollback, the error is flashed.
DrDeleteFail(p) ==
  /\ pc[p] = "dr_delete"
  /\ Finish(p, [ctx[p] EXCEPT !.steps = Append(@, "delete")], "error", ErrorSaving)
  /\ drFailed' = [drFailed EXCEPT ![ctx[p].key] = TRUE]
  /\ UNCHANGED <<store, slabs, nextId, nextSlabId, nreq, hrLast, lastDR>>

\* record = SalaryRecord(...); db.session.add(record); db.session.commit();
\* flash(... saved successfully)
DrInsert(p) ==
  /\ pc[p] = "dr_insert"
  /\ LET c == ctx[p]
         a == The(c.gathered)
         row == NewRecord(nextId, c.key, a.lop_days, a.deductions, The(c.result))
     IN  /\ store' = InsertRow(store, row)
         /\ nextId' = nextId + 1
         /\ Finish(p, [c EXCEPT !.steps = Append(@, "insert")], "ok",
                   Flash("success", "Salary record saved successfully!"))
         /\ lastDR' = [lastDR EXCEPT ![c.key] = {[result |-> The(c.result), deductions |-> a.deductions]}]
         /\ drFailed' = [drFailed EXCEPT ![c.key] = FALSE]
  /\ UNCHANGED <<slabs, nextSlabId, nreq, hrLast>>

\* The insert's commit raises: rollback, the error is flashed.  The delete
\* before it was committed on its own and stays.
DrInsertFail(p) ==
  /\ pc[p] = "dr_insert"
  /\ Finish(p, [ctx[p] EXCEPT !.steps = Append(@, "insert")], "error", ErrorSaving)
  /\ drFailed' = [drFailed EXCEPT ![ctx[p].key] = TRUE]
  /\ UNCHANGED <<store, slabs, nextId, nextSlabId, nreq, hrLast, lastDR>>

\* --------------------------------------------------------------- lop_page

\* The texts lop_<id> may carry; the empty text also stands for a field the
\* form does not have.
LopTexts == { <<>>, <<"2">>, <<"4", "0">>, <<"-", "1">>, <<"x">> }

\* The forms posted to lop_page, lop_<staff.id> for every staff primary key:
\* one staff member's days entered, or both, or a text that is no number.
LopForms ==
  { f \in [StaffIds -> LopTexts] :
      \/ f[2] = <<>>
      \/ f[1] \in { <<>>, <<"2">> } /\ f[2] \in { <<"2">>, <<"x">> } }

ErrorLop == Flash("error", "Error updating LOP days")

\* lop_page POST up to the loop: the role check, the staff list, the month.
LopStart(p, role, period, form) ==
  /\ Free(p)
  /\ nreq < MaxRequests
  /\ nreq' = nreq + 1
  /\ UNCHANGED <<store, slabs, nextId, nextSlabId, hrLast, lastDR, drFailed>>
  /\ LET c0 == [IdleCtx EXCEPT !.op = "lop", !.seq = nreq + 1, !.role = role]
     IN  IF ~is_hr(role) /\ ~is_admin(role)
         THEN Finish(p, c0, "denied", Flash("error", "Access denied: HR users only."))
         ELSE /\ ctx' = [ctx EXCEPT ![p] =
                          [c0 EXCEPT !.period = period, !.form = form, !.idx = 1]]
              /\ pc' = [pc EXCEPT ![p] =
                          IF Len(ActiveStaff) = 0 THEN "lop_commit" ELSE "lop_loop"]

\* What the loop body leaves in the session for one staff member: the
\* record's lop_days set (no change to write when it is set to the value it
\* has), or a new record added.
LopChange(ex, k, lop_days, gross) ==
  IF ex # {}
  THEN [kind |-> IF The(ex).lop_days = lop_days THEN "same" ELSE "update",
        id |-> The(ex).id, key |-> k, lop_days |-> lop_days, gross |-> gross]
  ELSE [kind |-> "insert", id |-> 0, key |-> k, lop_days |-> lop_days, gross |-> gross]

\* The session's changes written at commit, in order; new rows take the next
\* primary keys.  An UPDATE writes the one column the handler set.
RECURSIVE ApplyPending(_, _, _)
ApplyPending(st, pend, nid) ==
  IF pend = <<>> THEN [store |-> st, nextId |-> nid]
  ELSE LET ch == Head(pend)
       IN  IF ch.kind = "update"
           THEN ApplyPending({IF r.id = ch.id THEN [r EXCEPT !.lop_days = ch.lop_days] ELSE r
                                : r \in st}, Tail(pend), nid)
           ELSE IF ch.kind = "same" THEN ApplyPending(st, Tail(pend), nid)
           ELSE ApplyPending(InsertRow(st, LopRecord(nid, ch.key, ch.lop_days, ch.gross)),
                             Tail(pend), nid + 1)

RollbackKeepsChanges(st, pend, nid) == ApplyPending(st, pend, nid)

\* db.session.rollback() in `except`: the session's changes are dropped, the
\* table and its next primary key are as committed.
Rollback(st, pend, nid) == [store |-> st, nextId |-> nid]

\* One pass of `for staff in staff_list`.
LopIter(p) ==
  /\ pc[p] = "lop_loop"
  /\ UNCHANGED <<slabs, nextSlabId, nreq, hrLast, lastDR, drFailed>>
  /\ LET c == ctx[p]
         staff == ActiveStaff[c.idx]
         lop_value == c.form[staff.id]
         k == KeyOf(staff.id, c.period)
         next == IF c.idx = Len(ActiveStaff) THEN "lop_commit" ELSE "lop_loop"
     IN  IF ~NonBlank(lop_value)
         THEN /\ ctx' = [ctx EXCEPT ![p].idx = c.idx + 1]
              /\ pc' = [pc EXCEPT ![p] = next]
              /\ UNCHANGED <<store, nextId>>
         ELSE IF ~ParseFloat(lop_value).ok
         THEN /\ Finish(p, [c EXCEPT !.pending = <<>>], "error", ErrorLop)
              /\ store' = Rollback(store, c.pending, nextId).store
              /\ nextId' = Rollback(store, c.pending, nextId).nextId
         ELSE \E ex \in First(RowsFor(store, k)) :
                /\ ctx' = [ctx EXCEPT ![p] =
                     [c EXCEPT !.idx = c.idx + 1,
                               !.pending = Append(c.pending,
                                  LopChange(ex, k, ParseFloat(lop_value).val, GrossOf(staff)))]]
                /\ pc' = [pc EXCEPT ![p] = next]
                /\ UNCHANGED <<store, nextId>>

\* An UPDATE of the session matches no row (the row was deleted since it was
\* read): the commit raises StaleDataError.
Stale(st, pend) ==
  \E i \in 1..Len(pend) :
    pend[i].kind = "update" /\ pend[i].id \notin {r.id : r \in st}

RECURSIVE LastEntered(_, _)
LastEntered(h, pend) ==
  IF pend = <<>> THEN h
  ELSE LastEntered([h EXCEPT ![Head(pend).key] = Head(pend).lop_days], Tail(pend))

\* db.session.commit() of lop_page and the flash after it; on an exception
\* db.session.rollback().
LopCommit(p) ==
  /\ pc[p] = "lop_commit"
  /\ UNCHANGED <<slabs, nextSlabId, nreq, lastDR, drFailed>>
  /\ LET c == ctx[p]
     IN  IF Stale(store, c.pending)
         THEN /\ Finish(p, c, "error", ErrorLop)
              /\ store' = Rollback(store, c.pending, nextId).store
              /\ nextId' = Rollback(store, c.pending, nextId).nextId
              /\ UNCHANGED hrLast
         ELSE LET done == ApplyPending(store, c.pending, nextId)
              IN  /\ store' = done.store
                  /\ nextId' = done.nextId
                  /\ hrLast' = LastEntered(hrLast, c.pending)
                  /\ Finish(p, c, "ok", Flash("success", "LOP days updated successfully!"))

\* -------------------------------------------------------- professional tax

\* The slab forms posted to professional_tax.
SlabForms ==
  { [range_from |-> <<"0">>, range_to |-> <<"1", "0", "0", "0", "0">>, tax_amount |-> <<"0">>],
    [range_from |-> <<"5", "0", "0", "0">>, range_to |-> <<"1", "5", "0", "0", "0">>,
     tax_amount |-> <<"1", "5", "0">>],
    [range_from |-> <<"x">>, range_to |-> <<"1">>, tax_amount |-> <<"1">>] }

\* professional_tax POST: the three floats, the new row, the commit.  A text
\* float() refuses ends the request with nothing stored.
ProfessionalTaxPost(role, form) ==
  /\ nreq < MaxRequests
  /\ nreq' = nreq + 1
  /\ UNCHANGED <<store, nextId, pc, ctx, hrLast, lastDR, drFailed>>
  /\ LET f == ParseFloat(form.range_from)
         t == ParseFloat(form.range_to)
         a == ParseFloat(form.tax_amount)
     IN  IF (~is_admin(role) /\ ~is_accounts(role)) \/ ~f.ok \/ ~t.ok \/ ~a.ok
         THEN UNCHANGED <<slabs, nextSlabId>>
         ELSE /\ slabs' = slabs \cup {[id |-> nextSlabId, range_from |-> f.val,
                                        range_to |-> t.val, tax_amount |-> a.val]}
              /\ nextSlabId' = nextSlabId + 1

\* delete_tax(tax_id)
DeleteTax(role, tax_id) ==
  /\ nreq < MaxRequests
  /\ nreq' = nreq + 1
  /\ UNCHANGED <<store, nextId, nextSlabId, pc, ctx, hrLast, lastDR, drFailed>>
  /\ IF ~is_admin(role) /\ ~is_accounts(role)
     THEN UNCHANGED slabs
     ELSE slabs' = {sl \in slabs : sl.id # tax_id}

\* ------------------------------------------- salary overview and exports

\* request.args.get('month', type=int), request.args.get('year', type=int):
\* the month and year of the query string, None for one that is absent.
ReadQueries == { [year |-> 2024, month |-> 2], [year |-> None, month |-> None] }

\* `if month:` / `if year:`: the filter is applied for a value that is given
\* and not zero.
Given(x) == x # None /\ x # 0

\* SalaryRecord.query.join(Staff) with the filters of the query string
QueryRecords(st, q) ==
  { r \in st : /\ StaffGet(r.staff_id) # {}
               /\ Given(q.month) => r.month = q.month
               /\ Given(q.year) => r.year = q.year }

\* The columns export_salary_pdf writes with a float format; a None among
\* them makes the format raise.
PdfFormats(r) ==
  \A v \in { r.gross_salary, r.lop_amount, r.epf, r.esi, r.it, r.loan, r.advance,
             r.uniform, r.cd, r.hostel, r.misc, r.net_salary } : v # None

AccessDeniedAccounts == Flash("error", "Access denied: Accounts users only.")

\* A request that reads: the table and every counter of it are left alone.
ReadStart(p) ==
  /\ Free(p)
  /\ nreq < MaxRequests
  /\ nreq' = nreq + 1
  /\ UNCHANGED <<store, slabs, nextId, nextSlabId, hrLast, lastDR, drFailed>>

\* The response carries the records.
Respond(p, c, q, records) ==
  /\ pc' = [pc EXCEPT ![p] = "done"]
  /\ ctx' = [ctx EXCEPT ![p] =
       [c EXCEPT !.period = q, !.records = records, !.outcome = "ok"]]

\* salary_overview(): the records of the period rendered in the page.
salary_overview(p, role, q) ==
  /\ ReadStart(p)
  /\ LET c0 == [IdleCtx EXCEPT !.op = "salary_overview", !.seq = nreq + 1, !.role = role]
     IN  IF ~is_accounts(role) /\ ~is_admin(role)
         THEN Finish(p, c0, "denied", AccessDeniedAccounts)
         ELSE Respond(p, c0, q, QueryRecords(store, q))

\* export_salary_excel(): the records of the period as a spreadsheet.
export_salary_excel(p, role, q) ==
  /\ ReadStart(p)
  /\ LET c0 == [IdleCtx EXCEPT !.op = "export_salary_excel", !.seq = nreq + 1,
                               !.role = role]
         records == QueryRecords(store, q)
     IN  IF ~is_accounts(role) /\ ~is_admin(role)
         THEN Finish(p, c0, "denied", AccessDeniedAccounts)
         ELSE IF records = {}
         THEN Finish(p, [c0 EXCEPT !.period = q], "redirect",
                     Flash("warning", "No records to export for the selected period."))
         ELSE Respond(p, c0, q, records)

\* export_salary_pdf(): the records of the period as a PDF; the handler has
\* login_required and no check of the user's role.
export_salary_pdf(p, role, q) ==
  /\ ReadStart(p)
  /\ LET c0 == [IdleCtx EXCEPT !.op = "export_salary_pdf", !.seq = nreq + 1,
                               !.role = role]
         records == QueryRecords(store, q)
     IN  IF records = {}
         THEN Finish(p, [c0 EXCEPT !.period = q], "redirect",
                     Flash("error", "No records found for the selected period."))
         ELSE IF \E r \in records : ~PdfFormats(r)
         THEN /\ pc' = [pc EXCEPT ![p] = "done"]
              /\ ctx' = [ctx EXCEPT ![p] = [c0 EXCEPT !.period = q, !.outcome = "error"]]
         ELSE Respond(p, c0, q, records)

\* ---------------------------------------------------------- specifications

\* The steps of a request in progress on worker p.
Step(p) ==
  \/ DrCompute(p)
  \/ DrDelete(p)
  \/ DrDeleteFail(p)
  \/ DrInsert(p)
  \/ DrInsertFail(p)
  \/ LopIter(p)
  \/ LopCommit(p)

\* A request of a user with a role of R arrives at worker p.
Start(p, R) ==
  \/ \E role \in R, form \in DrForms : DrStart(p, role, form)
  \/ \E role \in R, period \in Periods, form \in LopForms : LopStart(p, role, period, form)

\* The tax_id values delete_tax is called with.
SlabIds == {1, 2}

\* A slab request, which is one commit.
SlabRequest ==
  \/ \E role \in Roles, form \in SlabForms : ProfessionalTaxPost(role, form)
  \/ \E role \in Roles, tax_id \in SlabIds : DeleteTax(role, tax_id)

\* The worker that serves the requests when they come one after the other.
Serial == "w1"

\* A request for the overview or for one of the two exports.
Read(p) ==
  \/ \E role \in Roles, q \in ReadQueries : salary_overview(p, role, q)
  \/ \E role \in Roles, q \in ReadQueries : export_salary_excel(p, role, q)
  \/ \E role \in Roles, q \in ReadQueries : export_salary_pdf(p, role, q)

\* Requests served one after the other.
Next ==
  \/ Start(Serial, Roles)
  \/ Step(Serial)
  \/ (Free(Serial) /\ SlabRequest)
  \/ Read(Serial)

Spec == Init /\ [][Next]_vars

\* Salary requests of HR and accounts users served by all workers, their
\* steps interleaved.
NextConc ==
  \/ \E p \in Procs : Start(p, {"hr", "accounts"})
  \/ \E p \in Procs : Step(p)

SpecConc == Init /\ [][NextConc]_vars

\* ------------------------------------------------------------- properties

\* No request is in progress.
Quiescent == \A p \in Procs : Free(p)

\* The computed fields a record holds when it stores breakdown res with the
\* named deductions d.
Breakdown(res, d) ==
  [gross_salary |-> res.gross_salary, lop_amount |-> res.lop_amount, epf |-> res.epf,
   esi |-> res.esi, it |-> d.it, loan |-> d.loan, advance |-> d.advance,
   uniform |-> d.uniform, cd |-> d.cd, hostel |-> d.hostel, misc |-> d.misc,
   total_deductions |-> res.total_deductions,
   total_reimbursements |-> res.total_reimbursements, net_salary |-> res.net_salary]

\* C1: between requests served one after the other, a key whose latest
\* d_r_page POST succeeded has exactly one record, and the record's computed
\* fields are those of that latest computation, whatever lop_page POSTs came
\* before or after it.
C1_UpsertLatest ==
  Quiescent =>
    \A k \in Keys :
      (lastDR[k] # {} /\ ~drFailed[k]) =>
        /\ Cardinality(RowsFor(store, k)) = 1
        /\ \A r \in RowsFor(store, k) :
             Computed(r) = Breakdown(The(lastDR[k]).result, The(lastDR[k]).deductions)

\* C1 witness: a d_r_page POST has just replaced a record that held an earlier,
\* different breakdown of the same key.
C1_Witness ==
  \E p \in Procs :
    /\ pc[p] = "done" /\ ctx[p].op = "d_r" /\ ctx[p].outcome = "ok"
    /\ ctx[p].existing # {}
    /\ The(ctx[p].existing).lop_amount # None
    /\ \E r \in RowsFor(store, ctx[p].key) : Computed(r) # Computed(The(ctx[p].existing))

\* C2: no key ever has two records, however the steps of concurrent requests
\* interleave.
C2_NoDuplicateKey == \A k \in Keys : Cardinality(RowsFor(store, k)) <= 1

\* C3: when a d_r_page POST has failed, the records of its key are what they
\* were when the request began.
C3_FailedDrLeavesStore ==
  \A p \in Procs :
    (pc[p] = "done" /\ ctx[p].op = "d_r" /\ ctx[p].outcome = "error") =>
      RowsFor(store, ctx[p].key) = ctx[p].pre

\* The keys a lop_page request wrote, with the days it wrote.
LopWrites(c) == {[key |-> c.pending[i].key, lop_days |-> c.pending[i].lop_days] :
                   i \in 1..Len(c.pending)}

\* C4: when the two latest requests are a lop_page POST and a d_r_page POST
\* on the same key and both have reported success, the stored records of the
\* key show the days lop_page wrote and the breakdown d_r_page computed.
C4_NoLostWrite ==
  \A p, q \in Procs :
    (/\ pc[p] = "done" /\ ctx[p].op = "lop" /\ ctx[p].outcome = "ok"
     /\ pc[q] = "done" /\ ctx[q].op = "d_r" /\ ctx[q].outcome = "ok"
     /\ {ctx[p].seq, ctx[q].seq} = {nreq - 1, nreq}) =>
      \A w \in LopWrites(ctx[p]) :
        w.key = ctx[q].key =>
          /\ \E r \in RowsFor(store, w.key) : r.lop_days = w.lop_days
          /\ \E r \in RowsFor(store, w.key) :
               Computed(r) = Breakdown(The(ctx[q].result), The(ctx[q].gathered).deductions)

\* C5: a record that holds a breakdown is never changed in place: while the
\* row is stored, every field keeps its value.
C5_NeverModifiedInPlace ==
  [][\A r \in store : r.lop_amount # None =>
       \A r2 \in store' : r2.id = r.id => r2 = r]_vars

Range(s) == {s[i] : i \in 1..Len(s)}

Max(a, b) == IF a >= b THEN a ELSE b
Min(a, b) == IF a <= b THEN a ELSE b

\* C7: no non-negative amount falls in two stored slabs: the closed ranges of
\* any two of them share no amount from 0 up.
C7_SlabsNonOverlapping ==
  \A a, b \in slabs :
    a.id # b.id =>
      Max(Max(a.range_from, b.range_from), 0) > Min(a.range_to, b.range_to)

\* C8: the engine is invoked by d_r_page with validated arguments only.
C8_ArgsPreValidated ==
  \A p \in Procs :
    (ctx[p].op = "d_r" /\ ctx[p].args # {}) =>
      LET a == The(ctx[p].args)
          d == a.deductions
      IN  /\ a.gross_salary >= 0
          /\ d.it >= 0 /\ d.loan >= 0 /\ d.advance >= 0 /\ d.uniform >= 0
          /\ d.cd >= 0 /\ d.hostel >= 0 /\ d.misc >= 0
          /\ \A i \in 1..Len(a.reimbursements) : a.reimbursements[i] >= 0
          /\ 0 <= a.lop_days /\ a.lop_days <= 100 * DaysInMonth(a.month, a.year)

\* C9: a d_r_page POST that has saved a breakdown with a negative net_salary
\* stored the value as returned and flashed more than the success message.
C9_NegativeNetFlagged ==
  \A p \in Procs :
    (/\ pc[p] = "done" /\ ctx[p].op = "d_r" /\ ctx[p].outcome = "ok"
     /\ The(ctx[p].result).net_salary < 0) =>
      /\ \E r \in RowsFor(store, ctx[p].key) : r.net_salary = The(ctx[p].result).net_salary
      /\ \E i \in 1..Len(ctx[p].flashes) : ctx[p].flashes[i].cat # "success"

\* C10: d_r_page passes on and stores the lop_days of the record it found (0
\* when it found none), and so, between requests served one after the other,
\* every stored lop_days is the value HR entered last for the key (0 when HR
\* entered none).
C10_LopDaysFromHR ==
  /\ \A p \in Procs :
       (ctx[p].op = "d_r" /\ ctx[p].args # {}) =>
         /\ \A r \in ctx[p].pre : The(ctx[p].args).lop_days = r.lop_days
         /\ ctx[p].pre = {} => The(ctx[p].args).lop_days = 0
  /\ Quiescent => \A k \in Keys : \A r \in RowsFor(store, k) : r.lop_days = hrLast[k]

\* C11: a lop_page POST writes nothing before its commit; when it ends in an
\* error the table is left as it was, the changes of the staff processed
\* before the error included; when it ends in success every active staff
\* member with a non-blank value has a record of the month with that value as
\* lop_days, and the records of every staff member with a blank value are as
\* they were.
C11_LopAllOrNothing ==
  [][\A p \in Procs :
       (pc[p] \in {"lop_loop", "lop_commit"}) =>
         /\ pc'[p] \in {"lop_loop", "lop_commit"} => store' = store
         /\ (pc'[p] = "done" /\ ctx'[p].outcome = "error") => store' = store
         /\ (pc'[p] = "done" /\ ctx'[p].outcome = "ok") =>
              \A i \in 1..Len(ActiveStaff) :
                LET v == ctx[p].form[ActiveStaff[i].id]
                    k == KeyOf(ActiveStaff[i].id, ctx[p].period)
                IN  IF NonBlank(v)
                    THEN /\ RowsFor(store', k) # {}
                         /\ \A r \in RowsFor(store', k) : r.lop_days = ParseFloat(v).val
                    ELSE RowsFor(store', k) = RowsFor(store, k)]_vars

\* C11 witness: a lop_page POST has ended in an error at the second staff
\* member, after the first one's value was taken.
C11_Witness ==
  \E p \in Procs :
    /\ pc[p] = "done" /\ ctx[p].op = "lop" /\ ctx[p].outcome = "error"
    /\ ctx[p].idx = 2
    /\ NonBlank(ctx[p].form[ActiveStaff[1].id])
    /\ ParseFloat(ctx[p].form[ActiveStaff[1].id]).ok

\* The lop_days on record for a key.
LopDaysOf(st, k) == { r.lop_days : r \in RowsFor(st, k) }

\* C12: the overview and the two exports hand salary records only to an
\* accounts or an admin user, and the lop_days on record for a key is changed
\* only by a request of an HR or an admin user.
C12_RoleGuarded ==
  /\ [](\A p \in Procs :
          (/\ ctx[p].op \in {"salary_overview", "export_salary_excel", "export_salary_pdf"}
           /\ ctx[p].records # {})
            => (is_accounts(ctx[p].role) \/ is_admin(ctx[p].role)))
  /\ [][\A k \in Keys :
          (/\ LopDaysOf(store, k) # {}
           /\ LopDaysOf(store', k) # {}
           /\ LopDaysOf(store', k) # LopDaysOf(store, k))
            => \E p \in Procs :
                 /\ pc[p] # pc'[p]
                 /\ is_hr(ctx[p].role) \/ is_admin(ctx[p].role)]_vars

====
